---- MODULE Spec2Model ----
(***************************************************************************)
(* Model of redeval/evaluators/faithfulness.py: the verdict mapping of     *)
(* FaithfulnessFailure, its compute, and Faithfulness.evaluate with its    *)
(* single call to the completion client.                                   *)
(*                                                                         *)
(* Python strings are sequences.  Verdict strings are sequences of single  *)
(* characters.  Prompt texts are sequences of tokens: a brace or a digit   *)
(* is a token of its own, and a run of literal text that holds no brace is *)
(* one token.  Python values True, False, None, 1 and 0 are written by     *)
(* their repr ("True", "False", "None", "1", "0").                         *)
(***************************************************************************)
EXTENDS Naturals, Sequences, FiniteSets

VARIABLES
    openAIcompletion,  \* self.openAIcompletion: the completion client held
    examples,          \* self.examples: the few-shot text held
    fewShotCalls,      \* number of calls of get_few_shot_examples so far
    pc,                \* "idle" or "awaiting" (inside get_completion_from_messages)
    context,           \* evaluate's argument while its frame is live
    response,          \* evaluate's argument while its frame is live
    message,           \* the message list handed to the client while it runs
    invocations,       \* number of evaluate invocations started
    completionCalls,   \* calls of get_completion_from_messages in this invocation
    extractCalls,      \* calls of extract_json_from_response in this invocation
    computeCalls,      \* calls of FaithfulnessFailure.compute in this invocation
    raised,            \* what the client raised in this invocation, "" if nothing
    extracted,         \* the object extract_json_from_response returned
    outcome,           \* how the last invocation of evaluate ended
    verdict,           \* input of verdict_to_int / verdict_to_bool (SpecVerdict)
    intScore,          \* result of verdict_to_int, "unset" before the call
    boolScore,         \* result of verdict_to_bool, "unset" before the call
    faith_eval,        \* input of compute (SpecCompute)
    computed           \* result of compute, kind "none" before the call

vars == <<openAIcompletion, examples, fewShotCalls, pc, context, response,
          message, invocations, completionCalls, extractCalls, computeCalls,
          raised, extracted, outcome, verdict, intScore, boolScore,
          faith_eval, computed>>

evaluatorVars == <<openAIcompletion, examples, fewShotCalls, pc, context,
                   response, message, invocations, completionCalls,
                   extractCalls, computeCalls, raised, extracted, outcome>>

verdictVars == <<verdict, intScore, boolScore>>

computeVars == <<faith_eval, computed>>

(***************************************************************************)
(* Bounds.                                                                 *)
(***************************************************************************)
MaxVerdictLen == 4

MaxComputeVerdictLen == 2

MaxContextLen == 3

MaxResponseLen == 2

MaxInvocations == 2

(***************************************************************************)
(* Input alphabets and bounded input sets.                                 *)
(***************************************************************************)
SeqsUpTo(S, n) == UNION {[1..k -> S] : k \in 0..n}

VerdictChar == {"y", "e", "s", "n", "o", "Y", "E", "S", "N", "O", " ", "."}

VerdictStrings == SeqsUpTo(VerdictChar, MaxVerdictLen)

ArgChar == {"{", "}", "0"}

Contexts == SeqsUpTo(ArgChar, MaxContextLen)

Responses == SeqsUpTo(ArgChar, MaxResponseLen)

Explanations == {<<"X">>, <<"Y">>}

\* A dict is a set of <<key, value>> pairs with at most one pair per key.
Dicts(verdicts, explanations) ==
    {vs \cup es : vs \in {{}} \cup {{<<"verdict", v>>} : v \in verdicts},
                  es \in {{}} \cup {{<<"explanation", e>>} : e \in explanations}}

(***************************************************************************)
(* Python values.                                                          *)
(***************************************************************************)
PyNone == "None"

PyTrue == "True"

PyFalse == "False"

HasKey(d, k) == \E p \in d : p[1] = k

Get(d, k) == (CHOOSE p \in d : p[1] = k)[2]

\* str.lower on one character of the alphabet: the cased letters map to
\* their lower-case letter, everything else is unchanged.
LowerChar(c) ==
    CASE c = "Y" -> "y"
      [] c = "E" -> "e"
      [] c = "S" -> "s"
      [] c = "N" -> "n"
      [] c = "O" -> "o"
      [] OTHER -> c

lower(s) == [i \in 1..Len(s) |-> LowerChar(s[i])]

(***************************************************************************)
(* FaithfulnessFailure                                                     *)
(***************************************************************************)
verdict_to_int_NoLower(v) ==
    IF v = <<"n", "o">> THEN "1"
    ELSE IF v = <<"y", "e", "s">> THEN "0"
    ELSE PyNone

verdict_to_int(v) ==
    LET lowered == lower(v)
    IN  IF lowered = <<"n", "o">> THEN "1"
        ELSE IF lowered = <<"y", "e", "s">> THEN "0"
        ELSE PyNone

verdict_to_bool_Coerced(v) ==
    LET lowered == lower(v)
    IN  IF lowered = <<"n", "o">> THEN PyTrue ELSE PyFalse

verdict_to_bool_Swapped(v) ==
    LET lowered == lower(v)
    IN  IF lowered = <<"n", "o">> THEN PyFalse
        ELSE IF lowered = <<"y", "e", "s">> THEN PyTrue
        ELSE PyNone

verdict_to_bool(v) ==
    LET lowered == lower(v)
    IN  IF lowered = <<"n", "o">> THEN PyTrue
        ELSE IF lowered = <<"y", "e", "s">> THEN PyFalse
        ELSE PyNone

\* How a call ends: it returns the pair (failure, explanation) or raises.
Returns(f, e) ==
    [kind |-> "return", failure |-> f, explanation |-> e, error |-> ""]

Raises(err) ==
    [kind |-> "raise", failure |-> "", explanation |-> <<>>, error |-> err]

NoOutcome ==
    [kind |-> "none", failure |-> "", explanation |-> <<>>, error |-> ""]

compute_WithDefaults(d) ==
    Returns(IF HasKey(d, "verdict") THEN verdict_to_bool(Get(d, "verdict"))
                                    ELSE PyNone,
            IF HasKey(d, "explanation") THEN Get(d, "explanation") ELSE <<>>)

compute_IntScore(d) ==
    IF ~HasKey(d, "verdict") THEN Raises("KeyError: 'verdict'")
    ELSE LET is_faithfulness_failure == verdict_to_int(Get(d, "verdict"))
         IN  IF ~HasKey(d, "explanation") THEN Raises("KeyError: 'explanation'")
             ELSE Returns(is_faithfulness_failure, Get(d, "explanation"))

compute(d) ==
    IF ~HasKey(d, "verdict") THEN Raises("KeyError: 'verdict'")
    ELSE LET is_faithfulness_failure == verdict_to_bool(Get(d, "verdict"))
         IN  IF ~HasKey(d, "explanation") THEN Raises("KeyError: 'explanation'")
             ELSE Returns(is_faithfulness_failure, Get(d, "explanation"))

(***************************************************************************)
(* FewShotExampleFaithfulness and the few-shot text                        *)
(***************************************************************************)
\* Addresses at which the one example object may be allocated.
Addrs == {"0x7f3a5c0d1e50", "0x7f3a5c0d1f10"}

\* The constructor stores its five arguments; id is the object's address.
FewShotExampleFaithfulness(ctx, resp, eval_function, eval_result, eval_reason, addr) ==
    [context |-> ctx, response |-> resp, eval_function |-> eval_function,
     eval_result |-> eval_result, eval_reason |-> eval_reason, id |-> addr]

\* str(obj) of an instance of FewShotExampleFaithfulness.  The class defines
\* neither __str__ nor __repr__, so this is object.__repr__.
str(obj) ==
    <<"<redeval.evaluators.faithfulness.FewShotExampleFaithfulness object at ",
      obj.id, ">">>

RECURSIVE join(_, _)
join(sep, strs) ==
    IF Len(strs) = 0 THEN <<>>
    ELSE IF Len(strs) = 1 THEN strs[1]
    ELSE strs[1] \o sep \o join(sep, Tail(strs))

example1(addr) ==
    FewShotExampleFaithfulness(
        <<"Y Combinator is a startup accelerator launched in March 2005. It has been used to launch more than 4,000 companies">>,
        <<"125,000">>,
        <<"is_response_faithful_to_context">>,
        <<"No">>,
        <<"The context does not contain any information to substantiate the response.">>,
        addr)

get_few_shot_examples(addr) == join(<<"\n\n">>, <<str(example1(addr))>>)

(***************************************************************************)
(* Faithfulness: the prompts                                               *)
(***************************************************************************)
SYSTEM_MESSAGE ==
    <<"\n        You are an expert at evaluating whether the response can be inferred using ONLY the information provided as context.\n    ">>

USER_MESSAGE_TEMPLATE ==
    <<"\n        Let's think step by step.\n        1. Consider the following:\n        context: ",
      "{", "}",
      ".\n        response:",
      "{", "}",
      ".\n        2. Determine if the response can be inferred purely from the context provided.\n        3. Provide a brief explanation of what information the response contained that was not provided to it in the context, labeled as 'explanation', leading up to a verdict (Yes/No) labeled as 'verdict'.\n        4. Return a JSON object in the following format: \"verdict\": 'verdict', \"explanation\": 'explanation'.\n\n        Here's are some examples:\n        ",
      "{", "}",
      "\n    ">>

\* str.format with positional arguments on a template whose only replacement
\* fields are the automatically numbered "{}": the template is scanned once,
\* the n-th field is replaced by the n-th argument, and the arguments
\* themselves are never scanned.
RECURSIVE FormatFrom(_, _, _, _)
FormatFrom(template, i, auto, args) ==
    IF i > Len(template) THEN <<>>
    ELSE IF template[i] = "{" /\ i < Len(template) /\ template[i + 1] = "}"
         THEN args[auto] \o FormatFrom(template, i + 2, auto + 1, args)
         ELSE <<template[i]>> \o FormatFrom(template, i + 1, auto, args)

\* The text with its first "{}" replaced by arg.
RECURSIVE ReplaceFirstField(_, _)
ReplaceFirstField(text, arg) ==
    IF Len(text) = 0 THEN <<>>
    ELSE IF Len(text) >= 2 /\ text[1] = "{" /\ text[2] = "}"
         THEN arg \o SubSeq(text, 3, Len(text))
         ELSE <<text[1]>> \o ReplaceFirstField(Tail(text), arg)

format_Chained(template, args) ==
    ReplaceFirstField(
        ReplaceFirstField(ReplaceFirstField(template, args[1]), args[2]),
        args[3])

format(template, args) == FormatFrom(template, 1, 1, args)

\* The message list evaluate builds.
Messages(c, r, ex) ==
    <<[role |-> "system", content |-> SYSTEM_MESSAGE],
      [role |-> "user", content |-> format(USER_MESSAGE_TEMPLATE, <<c, r, ex>>)]>>

(***************************************************************************)
(* Inputs of the evaluator: what the collaborators may answer.             *)
(***************************************************************************)
Models == {"gpt-3.5-turbo", "gpt-4"}

\* Errors the completion client may raise.
ClientErrors == {"Timeout", "RateLimitError"}

\* Errors extract_json_from_response may raise on text that holds no JSON.
ExtractErrors == {"JSONDecodeError"}

EvalVerdicts ==
    {<<"N", "o">>, <<"Y", "e", "s">>, <<"Y", "E", "S">>, <<"N", "o", ".">>}

ExtractedObjects == Dicts(EvalVerdicts, Explanations)

(***************************************************************************)
(* Faithfulness.__init__                                                   *)
(***************************************************************************)
NoVerdictCall ==
    /\ verdict = <<>>
    /\ intScore = "unset"
    /\ boolScore = "unset"

NoComputeCall ==
    /\ faith_eval = {}
    /\ computed = NoOutcome

Construct(model, open_ai_key, addr) ==
    /\ openAIcompletion = [model |-> model, open_ai_key |-> open_ai_key]
    /\ examples = get_few_shot_examples(addr)
    /\ fewShotCalls = 1
    /\ pc = "idle"
    /\ context = <<>>
    /\ response = <<>>
    /\ message = <<>>
    /\ invocations = 0
    /\ completionCalls = 0
    /\ extractCalls = 0
    /\ computeCalls = 0
    /\ raised = ""
    /\ extracted = {}
    /\ outcome = NoOutcome

Init ==
    /\ \E model \in Models, addr \in Addrs : Construct(model, "sk-key", addr)
    /\ NoVerdictCall
    /\ NoComputeCall

(***************************************************************************)
(* Faithfulness.evaluate                                                   *)
(***************************************************************************)
\* Lines 110-117 up to the point where the client takes over: the prompt is
\* built and handed to get_completion_from_messages.
CallCompletion(c, r) ==
    /\ pc = "idle"
    /\ invocations < MaxInvocations
    /\ pc' = "awaiting"
    /\ invocations' = invocations + 1
    /\ context' = c
    /\ response' = r
    /\ message' = Messages(c, r, examples)
    /\ completionCalls' = 1
    /\ extractCalls' = 0
    /\ computeCalls' = 0
    /\ raised' = ""
    /\ extracted' = {}
    /\ outcome' = NoOutcome
    /\ UNCHANGED <<verdictVars, computeVars>>

Evaluate_Refreshing(c, r) ==
    /\ CallCompletion(c, r)
    /\ \E addr \in Addrs : examples' = get_few_shot_examples(addr)
    /\ fewShotCalls' = fewShotCalls + 1
    /\ UNCHANGED openAIcompletion

Evaluate(c, r) ==
    /\ CallCompletion(c, r)
    /\ UNCHANGED <<openAIcompletion, examples, fewShotCalls>>

\* evaluate's frame ends: its locals are gone.
FrameEnds ==
    /\ pc' = "idle"
    /\ context' = <<>>
    /\ response' = <<>>
    /\ message' = <<>>
    /\ UNCHANGED <<openAIcompletion, examples, fewShotCalls, invocations,
                   verdictVars, computeVars>>

CompletionRaises_Retry(err) ==
    /\ pc = "awaiting"
    /\ completionCalls < 2
    /\ completionCalls' = completionCalls + 1
    /\ UNCHANGED <<openAIcompletion, examples, fewShotCalls, pc, context,
                   response, message, invocations, extractCalls, computeCalls,
                   raised, extracted, outcome, verdictVars, computeVars>>

CompletionRaises_Fallback(err) ==
    /\ pc = "awaiting"
    /\ raised' = err
    /\ outcome' = Returns(PyFalse, <<>>)
    /\ FrameEnds
    /\ UNCHANGED <<completionCalls, extractCalls, computeCalls, extracted>>

\* get_completion_from_messages raises: nothing in evaluate catches it.
CompletionRaises(err) ==
    /\ pc = "awaiting"
    /\ raised' = err
    /\ outcome' = Raises(err)
    /\ FrameEnds
    /\ UNCHANGED <<completionCalls, extractCalls, computeCalls, extracted>>

\* get_completion_from_messages returns text in which
\* extract_json_from_response finds no object: its error leaves evaluate.
ExtractRaises(err) ==
    /\ pc = "awaiting"
    /\ extractCalls' = extractCalls + 1
    /\ outcome' = Raises(err)
    /\ FrameEnds
    /\ UNCHANGED <<completionCalls, computeCalls, raised, extracted>>

\* get_completion_from_messages returns text from which
\* extract_json_from_response extracts obj; compute's result, or its error,
\* is evaluate's.
CompletionReturns(obj) ==
    /\ pc = "awaiting"
    /\ extractCalls' = extractCalls + 1
    /\ extracted' = obj
    /\ computeCalls' = computeCalls + 1
    /\ outcome' = compute(obj)
    /\ FrameEnds
    /\ UNCHANGED <<completionCalls, raised>>

Next ==
    \/ \E c \in Contexts, r \in Responses : Evaluate(c, r)
    \/ \E err \in ClientErrors : CompletionRaises(err)
    \/ \E err \in ExtractErrors : ExtractRaises(err)
    \/ \E obj \in ExtractedObjects : CompletionReturns(obj)

Spec == Init /\ [][Next]_vars

(***************************************************************************)
(* The verdict mapping on its own: every verdict string within the bound.  *)
(***************************************************************************)
NoEvaluator ==
    /\ openAIcompletion = [model |-> "", open_ai_key |-> ""]
    /\ examples = <<>>
    /\ fewShotCalls = 0
    /\ pc = "none"
    /\ context = <<>>
    /\ response = <<>>
    /\ message = <<>>
    /\ invocations = 0
    /\ completionCalls = 0
    /\ extractCalls = 0
    /\ computeCalls = 0
    /\ raised = ""
    /\ extracted = {}
    /\ outcome = NoOutcome

InitVerdict ==
    /\ NoEvaluator
    /\ NoComputeCall
    /\ verdict \in VerdictStrings
    /\ intScore = "unset"
    /\ boolScore = "unset"

CallVerdictToInt ==
    /\ intScore = "unset"
    /\ intScore' = verdict_to_int(verdict)
    /\ UNCHANGED <<evaluatorVars, computeVars, verdict, boolScore>>

CallVerdictToBool ==
    /\ boolScore = "unset"
    /\ boolScore' = verdict_to_bool(verdict)
    /\ UNCHANGED <<evaluatorVars, computeVars, verdict, intScore>>

NextVerdict == CallVerdictToInt \/ CallVerdictToBool

SpecVerdict == InitVerdict /\ [][NextVerdict]_vars

(***************************************************************************)
(* compute on its own: every dict within the bound.                        *)
(***************************************************************************)
ComputeVerdicts ==
    SeqsUpTo({"N", "o", "n", "Y", "e", "s"}, MaxComputeVerdictLen)
        \cup {<<"N", "o">>, <<"Y", "e", "s">>}

InitCompute ==
    /\ NoEvaluator
    /\ NoVerdictCall
    /\ faith_eval \in Dicts(ComputeVerdicts, Explanations)
    /\ computed = NoOutcome

CallCompute ==
    /\ computed = NoOutcome
    /\ computed' = compute(faith_eval)
    /\ UNCHANGED <<evaluatorVars, verdictVars, faith_eval>>

NextCompute == CallCompute

SpecCompute == InitCompute /\ [][NextCompute]_vars

(***************************************************************************)
(* Properties                                                              *)
(***************************************************************************)
IsSubstring(sub, text) ==
    \E i \in 0..(Len(text) - Len(sub)) : SubSeq(text, i + 1, i + Len(sub)) = sub

YesVariations ==
    {<<c1, c2, c3>> : c1 \in {"y", "Y"}, c2 \in {"e", "E"}, c3 \in {"s", "S"}}

NoVariations == {<<c1, c2>> : c1 \in {"n", "N"}, c2 \in {"o", "O"}}

Dict(v, e) == {<<"verdict", v>>, <<"explanation", e>>}

\* C1: for every upper/lower-case variation of "yes", verdict_to_bool returns
\* False and verdict_to_int returns 0; for every variation of "no",
\* verdict_to_bool returns True and verdict_to_int returns 1.
C1_CaseVariationsMapped ==
    /\ verdict \in YesVariations =>
           /\ boolScore \in {"unset", PyFalse}
           /\ intScore \in {"unset", "0"}
    /\ verdict \in NoVariations =>
           /\ boolScore \in {"unset", PyTrue}
           /\ intScore \in {"unset", "1"}

C1_Witness ==
    /\ verdict = <<"y", "E", "S">>
    /\ boolScore = PyFalse
    /\ intScore = "0"

\* C2: for a verdict string that is no case variation of "yes" or "no" (the
\* empty string, " yes", "No." among them), verdict_to_bool and
\* verdict_to_int both return None, never True, False, 0 or 1.
C2_OtherVerdictsUnknown ==
    verdict \notin (YesVariations \cup NoVariations) =>
        /\ boolScore \in {"unset", PyNone}
        /\ intScore \in {"unset", PyNone}

C2_Witness ==
    /\ verdict = <<" ", "y", "e", "s">>
    /\ boolScore = PyNone
    /\ intScore = PyNone

\* C3: compute on a dict with "verdict" = v and "explanation" = e returns
\* the pair (verdict_to_bool(v), e): True first for v = "No", False first
\* for v = "Yes", and e unchanged second.
C3_ComputePair ==
    (computed # NoOutcome /\ HasKey(faith_eval, "verdict")
                          /\ HasKey(faith_eval, "explanation")) =>
        LET v == Get(faith_eval, "verdict")
        IN  /\ computed.kind = "return"
            /\ computed.explanation = Get(faith_eval, "explanation")
            /\ computed.failure = verdict_to_bool(v)
            /\ v = <<"N", "o">> => computed.failure = PyTrue
            /\ v = <<"Y", "e", "s">> => computed.failure = PyFalse

C3_Witness ==
    /\ faith_eval = Dict(<<"N", "o">>, <<"X">>)
    /\ computed = Returns(PyTrue, <<"X">>)

\* C4: whatever the context, the response and the earlier invocations, an
\* invocation of evaluate whose extracted object has verdict "No" and
\* explanation e returns (True, e), and one whose extracted object has
\* verdict "Yes" and explanation e returns (False, e).
C4_EvaluateResult ==
    (pc = "idle" /\ extractCalls = 1) =>
        \A e \in Explanations :
            /\ extracted = Dict(<<"N", "o">>, e) => outcome = Returns(PyTrue, e)
            /\ extracted = Dict(<<"Y", "e", "s">>, e) => outcome = Returns(PyFalse, e)

C4_Witness ==
    /\ invocations = 2
    /\ extracted = Dict(<<"Y", "e", "s">>, <<"Y">>)
    /\ outcome = Returns(PyFalse, <<"Y">>)

\* C5: every invocation of evaluate makes exactly one call of
\* get_completion_from_messages, whether it is still running, has returned
\* or has failed; before the first invocation there is none.
C5_OneCompletionCall ==
    /\ invocations = 0 => completionCalls = 0
    /\ (pc = "awaiting" \/ outcome.kind \in {"return", "raise"}) =>
           completionCalls = 1

C5_Witness ==
    /\ invocations = 2
    /\ pc = "idle"
    /\ outcome.kind = "raise"
    /\ completionCalls = 1

\* C6: when get_completion_from_messages raises, evaluate ends by raising
\* that same error: no result pair, no call of extract_json_from_response
\* or compute, no second call of the client.
C6_ClientErrorPropagates ==
    raised # "" =>
        /\ pc = "idle"
        /\ outcome = Raises(raised)
        /\ extractCalls = 0
        /\ computeCalls = 0
        /\ completionCalls = 1

C6_Witness ==
    /\ raised = "Timeout"
    /\ outcome = Raises("Timeout")

\* C7: when the extracted object lacks "verdict" or lacks "explanation",
\* evaluate ends by raising a KeyError and returns no pair, also when only
\* "explanation" is missing and the verdict is "Yes" or "No".
C7_MissingKeyRaises ==
    (pc = "idle" /\ computeCalls = 1
       /\ (~HasKey(extracted, "verdict") \/ ~HasKey(extracted, "explanation"))) =>
        /\ outcome.kind = "raise"
        /\ outcome.error \in {"KeyError: 'verdict'", "KeyError: 'explanation'"}

C7_Witness ==
    /\ pc = "idle"
    /\ computeCalls = 1
    /\ extracted = {<<"verdict", <<"Y", "e", "s">>>>}
    /\ outcome = Raises("KeyError: 'explanation'")

\* C8: the message list handed to the client is exactly the system message
\* followed by the user message, and the user message contains the context,
\* the response and the evaluator's few-shot text as substrings, also for
\* empty arguments and arguments that contain braces.
C8_MessageHoldsArguments ==
    pc = "awaiting" =>
        /\ Len(message) = 2
        /\ message[1] = [role |-> "system", content |-> SYSTEM_MESSAGE]
        /\ message[2].role = "user"
        /\ IsSubstring(context, message[2].content)
        /\ IsSubstring(response, message[2].content)
        /\ IsSubstring(examples, message[2].content)

C8_Witness ==
    /\ pc = "awaiting"
    /\ context = <<"{", "0", "}">>
    /\ response = <<"{", "}">>
    /\ Len(message) = 2

\* C9: the few-shot text produced by get_few_shot_examples and held by the
\* evaluator contains the example's context, its response "125,000", its
\* eval_result "No" and its eval_reason.
C9_FewShotTextRendersFields ==
    \A addr \in Addrs :
        /\ IsSubstring(example1(addr).context, examples)
        /\ IsSubstring(example1(addr).response, examples)
        /\ IsSubstring(example1(addr).eval_result, examples)
        /\ IsSubstring(example1(addr).eval_reason, examples)

\* C10: no step of evaluate changes the evaluator's few-shot text or its
\* client reference or calls get_few_shot_examples, and the text every call
\* puts into its user message is the text held before the call.
C10_EvaluatorAttributesFrozen ==
    [][/\ examples' = examples
       /\ openAIcompletion' = openAIcompletion
       /\ fewShotCalls' = fewShotCalls
       /\ pc' = "awaiting" => IsSubstring(examples, message'[2].content)]_vars

C10_Witness ==
    /\ invocations = 2
    /\ pc = "idle"
    /\ outcome.kind = "return"
    /\ fewShotCalls = 1
    /\ \E addr \in Addrs : examples = get_few_shot_examples(addr)

====
